---- MODULE Spec2Model ----
(***************************************************************************)
(* Model of the retrieval pipeline of src/rag_pipeline/functions.py:       *)
(* tokenize_text, get_embedding, build_index, retrieve_chunks and          *)
(* generate_answer, driven by a caller that holds the built index and its  *)
(* parallel chunk list (src/rag_pipeline/rag_pipeline.py).                 *)
(*                                                                         *)
(* Texts are sequences of characters.  An embedding is a tuple of          *)
(* integers; a normalized vector v / |v| is kept exactly as the pair       *)
(* (v, |v|^2), so that inner products of normalized vectors are compared   *)
(* without square roots.  The embedding provider, the chat provider and    *)
(* the order in which the FAISS index reports equally similar vectors are  *)
(* nondeterministic.                                                       *)
(***************************************************************************)
EXTENDS Integers, Sequences, FiniteSets, TLC

VARIABLES
    index,          \* the caller's FAISS index: <<>> before a build, else the stored vectors
    valid_chunks,   \* the caller's chunk list, parallel to index
    frame,          \* the most recent call: its arguments, locals and outcome
    threads         \* the concurrent queries on the built index, one frame per thread

vars == <<index, valid_chunks, frame, threads>>

(***************************************************************************)
(* Bounds of the model.                                                    *)
(***************************************************************************)
MaxTextLen == 3
MaxTokens == 3
MaxChunks == 3
MaxTopK == 4
MaxBuilt == 2

Chars == {"a", "b"}

RECURSIVE SeqsUpTo(_, _)
SeqsUpTo(S, n) ==
    IF n = 0 THEN {<<>>}
    ELSE LET shorter == SeqsUpTo(S, n - 1)
         IN  shorter \cup {Append(s, x) : s \in {t \in shorter : Len(t) = n - 1}, x \in S}

Min(a, b) == IF a <= b THEN a ELSE b

(***************************************************************************)
(* The tokenizer: a byte-pair style vocabulary in which "ab" is one token. *)
(***************************************************************************)
TokA == 0
TokB == 1
TokAB == 2

RECURSIVE Encode(_)
Encode(text) ==
    IF text = <<>> THEN <<>>
    ELSE IF Len(text) >= 2 /\ text[1] = "a" /\ text[2] = "b"
         THEN <<TokAB>> \o Encode(SubSeq(text, 3, Len(text)))
         ELSE <<(IF text[1] = "a" THEN TokA ELSE TokB)>> \o Encode(Tail(text))

RECURSIVE Decode(_)
Decode(tokens) ==
    IF tokens = <<>> THEN <<>>
    ELSE (IF tokens[1] = TokAB THEN <<"a", "b">>
          ELSE IF tokens[1] = TokA THEN <<"a">> ELSE <<"b">>)
         \o Decode(Tail(tokens))

(***************************************************************************)
(* tokenize_text.                                                          *)
(***************************************************************************)
\* range(0, n, step) of Python, for step > 0 (ascending) and step < 0 (empty).
RECURSIVE PyRange(_, _, _)
PyRange(start, stop, step) ==
    IF step > 0 /\ start < stop THEN <<start>> \o PyRange(start + step, stop, step)
    ELSE <<>>

\* tokens[i:i + max_tokens] for 0 <= i and max_tokens > 0 (0-based i).
PySlice(tokens, i, max_tokens) ==
    SubSeq(tokens, i + 1, Min(i + max_tokens, Len(tokens)))

\* Mutant: windows that advance by one token less than their size (overlap).
WindowStartsOverlap(n, max_tokens) ==
    PyRange(0, n, IF max_tokens > 1 THEN max_tokens - 1 ELSE max_tokens)

WindowStarts(n, max_tokens) == PyRange(0, n, max_tokens)

\* The body of tokenize_text: the frame it leaves behind.
TokenizeText(text, max_tokens) ==
    LET tokens == Encode(text) IN
    IF max_tokens = 0
    THEN \* range() arg 3 must not be zero
         [fn |-> "tokenize_text", text |-> text, max_tokens |-> max_tokens,
          tokens |-> tokens, windows |-> <<>>, status |-> "raised", chunks |-> <<>>]
    ELSE LET starts  == WindowStarts(Len(tokens), max_tokens)
             windows == [j \in 1..Len(starts) |-> PySlice(tokens, starts[j], max_tokens)]
         IN  [fn |-> "tokenize_text", text |-> text, max_tokens |-> max_tokens,
              tokens |-> tokens, windows |-> windows, status |-> "returned",
              chunks |-> [j \in 1..Len(windows) |-> Decode(windows[j])]]

(***************************************************************************)
(* get_embedding.                                                          *)
(***************************************************************************)
\* Python values passed as the text argument.
PyStr(s) == [type |-> "str", s |-> s, n |-> 0]
PyInt(n) == [type |-> "int", s |-> <<>>, n |-> n]

Truthy(x) == IF x.type = "str" THEN x.s # <<>> ELSE x.n # 0
IsStr(x) == x.type = "str"

\* What the embedding provider can answer to one request.
Vecs == {<<1, 0>>, <<2, 0>>, <<1, 1>>, <<0, 1>>}
NoVec == <<>>
EmbeddingResponses ==
    {[kind |-> "ok", embedding |-> v] : v \in Vecs}
        \cup {[kind |-> "error", embedding |-> NoVec],      \* the request raises
              [kind |-> "malformed", embedding |-> NoVec]}  \* response.data is empty

\* The return value of get_embedding: None or a vector.
NoneEmb == [none |-> TRUE, vec |-> NoVec]
SomeEmb(v) == [none |-> FALSE, vec |-> v]

\* Mutant: only the request itself is guarded, not the read of response.data[0].
GetEmbeddingUnguardedRead(text, resp) ==
    IF ~Truthy(text) \/ ~IsStr(text)
    THEN [status |-> "returned", emb |-> NoneEmb, requests |-> 0]
    ELSE IF resp.kind = "ok"
         THEN [status |-> "returned", emb |-> SomeEmb(resp.embedding), requests |-> 1]
         ELSE IF resp.kind = "malformed"
              THEN [status |-> "raised", emb |-> NoneEmb, requests |-> 1]
              ELSE [status |-> "returned", emb |-> NoneEmb, requests |-> 1]

\* Mutant: the local validation is missing, the provider is always asked.
GetEmbeddingNoValidation(text, resp) ==
    IF resp.kind = "ok"
    THEN [status |-> "returned", emb |-> SomeEmb(resp.embedding), requests |-> 1]
    ELSE [status |-> "returned", emb |-> NoneEmb, requests |-> 1]

\* get_embedding(text, client, EMBEDDING_MODEL) when the provider would answer resp.
GetEmbedding(text, resp) ==
    IF ~Truthy(text) \/ ~IsStr(text)
    THEN [status |-> "returned", emb |-> NoneEmb, requests |-> 0]
    ELSE IF resp.kind = "ok"
         THEN [status |-> "returned", emb |-> SomeEmb(resp.embedding), requests |-> 1]
         ELSE [status |-> "returned", emb |-> NoneEmb, requests |-> 1]

(***************************************************************************)
(* Vectors, L2 normalization and the inner-product index.                  *)
(***************************************************************************)
RECURSIVE DotFrom(_, _, _)
DotFrom(a, b, i) ==
    IF i > Len(a) \/ i > Len(b) THEN 0 ELSE a[i] * b[i] + DotFrom(a, b, i + 1)

Dot(a, b) == DotFrom(a, b, 1)

\* Mutant: the vector is stored as it came, without dividing by its norm.
NormalizeL2Skipped(v) == [v |-> v, n2 |-> 1]

\* faiss.normalize_L2 on one row: v / |v|, kept as (v, |v|^2); a zero row is left as it is.
NormalizeL2(v) == [v |-> v, n2 |-> IF Dot(v, v) = 0 THEN 1 ELSE Dot(v, v)]

SignedSq(x) == IF x >= 0 THEN x * x ELSE -(x * x)

\* The inner product of the unit vectors q and a is greater than that of q and b.
Closer(q, a, b) == SignedSq(Dot(q.v, a.v)) * b.n2 > SignedSq(Dot(q.v, b.v)) * a.n2

\* index.add(embedding_matrix) on a fresh IndexFlatIP, after normalize_L2 of every row.
IndexOf(embeddings) == [j \in 1..Len(embeddings) |-> NormalizeL2(embeddings[j])]

\* The label rows an exact inner-product search may report for the m best of
\* the stored vectors: 0-based, distinct, by descending inner product, equally
\* similar vectors in any order.
Rankings(idx, q, m) ==
    {l \in [1..m -> 0..(Len(idx) - 1)] :
        /\ \A i, j \in 1..m : i # j => l[i] # l[j]
        /\ \A i \in 1..(m - 1) : ~Closer(q, idx[l[i + 1] + 1], idx[l[i] + 1])
        /\ \A j \in 0..(Len(idx) - 1) :
              (\A i \in 1..m : l[i] # j) =>
                  \A i \in 1..m : ~Closer(q, idx[j + 1], idx[l[i] + 1])}

\* index.search(query_vector, k): k labels, -1 where the index has no further
\* vector.  k < 0 raises in every FAISS build; k = 0 raises in the builds that
\* check k > 0 and gives an empty row in the others.
IndexSearch(idx, q, k) ==
    IF k < 0 THEN {[status |-> "raised", labels |-> <<>>]}
    ELSE IF k = 0
         THEN {[status |-> "raised", labels |-> <<>>],
               [status |-> "returned", labels |-> <<>>]}
         ELSE LET m == Min(k, Len(idx)) IN
              {[status |-> "returned", labels |-> l \o [j \in 1..(k - m) |-> -1]] :
                    l \in Rankings(idx, q, m)}

(***************************************************************************)
(* build_index.                                                            *)
(***************************************************************************)
\* Mutant: the None check of the loop is missing.
EmbeddingSucceededAlways(emb) == TRUE

\* `if emb is not None`
EmbeddingSucceeded(emb) == ~emb.none

\* Mutant: the loop gives up at the first chunk whose embedding failed.
AfterAttemptAbortOnFailure(r) ==
    IF r.status = "raised" \/ r.emb.none THEN "raised" ELSE "running"

\* The loop after get_embedding came back with r: only an exception leaves it.
AfterAttempt(r) == IF r.status = "raised" THEN "raised" ELSE "running"

\* Mutant: the emptiness check before building the matrix is missing.
NoEmbeddingsNever(embeddings) == FALSE

\* `if not embeddings`
NoEmbeddings(embeddings) == embeddings = <<>>

(***************************************************************************)
(* retrieve_chunks.                                                        *)
(***************************************************************************)
\* Mutant: the None check of the query embedding is missing.
QueryEmbeddingFailedNever(emb) == FALSE

\* `if query_embedding is None`
QueryEmbeddingFailed(emb) == emb.none

\* chunks[i] of Python for a 0-based i; a negative i counts from the end.
PyIndex(chunks, i) == IF i >= 0 THEN chunks[i + 1] ELSE chunks[Len(chunks) + i + 1]

\* [chunks[i] for i in indices[0] if i < len(chunks)]
RECURSIVE Retrieved(_, _)
Retrieved(chunks, labels) ==
    IF labels = <<>> THEN <<>>
    ELSE (IF labels[1] < Len(chunks) THEN <<PyIndex(chunks, labels[1])>> ELSE <<>>)
         \o Retrieved(chunks, Tail(labels))

(***************************************************************************)
(* generate_answer.                                                        *)
(***************************************************************************)
Apology == "Sorry, I encountered an error generating an answer."

\* What the chat provider can answer to one request.
ChatResponses ==
    {[kind |-> "ok", text |-> "answer"],
     [kind |-> "ok", text |-> ""],
     [kind |-> "error", text |-> ""],       \* the request raises
     [kind |-> "malformed", text |-> ""]}   \* response.choices is empty

\* "\n\n".join(context_chunks)
RECURSIVE Join(_)
Join(context_chunks) ==
    IF context_chunks = <<>> THEN <<>>
    ELSE IF Len(context_chunks) = 1 THEN context_chunks[1]
         ELSE context_chunks[1] \o <<"\n\n">> \o Join(Tail(context_chunks))

Prompt(query, context_chunks) ==
    <<"Context:\n">> \o Join(context_chunks) \o <<"\n\nUser Query: ">> \o query
        \o <<"\n\nAnswer:">>

\* Mutant: only the request is guarded, the read of response.choices[0] is not.
GenerateAnswerUnguardedRead(query, context_chunks, resp) ==
    [fn |-> "generate_answer", query |-> query, context_chunks |-> context_chunks,
     prompt |-> Prompt(query, context_chunks), chat |-> resp,
     status |-> IF resp.kind = "malformed" THEN "raised" ELSE "returned",
     answer |-> IF resp.kind = "ok" THEN resp.text
                ELSE IF resp.kind = "error" THEN Apology ELSE ""]

\* The body of generate_answer when the provider would answer resp.
GenerateAnswer(query, context_chunks, resp) ==
    [fn |-> "generate_answer", query |-> query, context_chunks |-> context_chunks,
     prompt |-> Prompt(query, context_chunks), chat |-> resp,
     status |-> "returned",
     answer |-> IF resp.kind = "ok" THEN resp.text ELSE Apology]

(***************************************************************************)
(* Inputs.                                                                 *)
(***************************************************************************)
Texts == SeqsUpTo(Chars, MaxTextLen)
ChunkTexts == SeqsUpTo(Chars, 1)
ChunkSeqs == SeqsUpTo(ChunkTexts, MaxChunks)
Queries == {<<>>, <<"a">>}
EmbedInputs == {PyStr(s) : s \in ChunkTexts} \cup {PyInt(0), PyInt(7)}

Idle == frame.status # "running"

Threads == {1, 2}

\* The top_k values of the concurrent queries: below and above a small index size.
ConcTopKs == {1, 2}

\* A thread that has not called retrieve_chunks yet.
NotStarted ==
    [pc |-> "idle", query |-> <<>>, top_k |-> 0, query_embedding |-> NoneEmb,
     labels |-> <<>>, retrieved |-> <<>>, answer |-> ""]

Init ==
    /\ index = <<>>
    /\ valid_chunks = <<>>
    /\ frame = [fn |-> "none", status |-> "returned"]
    /\ threads = [t \in Threads |-> NotStarted]

\* A call of tokenize_text, at indexing time.
CallTokenizeText ==
    /\ Idle
    /\ index = <<>>
    /\ \E text \in Texts, max_tokens \in -1..MaxTokens :
          frame' = TokenizeText(text, max_tokens)
    /\ UNCHANGED <<index, valid_chunks, threads>>

\* A direct call of get_embedding, at indexing time.
CallGetEmbedding ==
    /\ Idle
    /\ index = <<>>
    /\ \E text \in EmbedInputs, resp \in EmbeddingResponses :
          LET r == GetEmbedding(text, resp) IN
          frame' = [fn |-> "get_embedding", arg |-> text, resp |-> resp,
                    status |-> r.status, emb |-> r.emb, requests |-> r.requests]
    /\ UNCHANGED <<index, valid_chunks, threads>>

\* build_index is entered: embeddings = [], valid_chunks = [].
BuildStart ==
    /\ Idle
    /\ index = <<>>
    /\ \E chunks \in ChunkSeqs :
          frame' = [fn |-> "build_index", status |-> "running", chunks |-> chunks,
                    i |-> 0, embeddings |-> <<>>, valid |-> <<>>, log |-> <<>>,
                    attempts |-> <<>>, requests |-> 0]
    /\ UNCHANGED <<index, valid_chunks, threads>>

\* One iteration of `for chunk in chunks`.
BuildStep ==
    /\ frame.fn = "build_index"
    /\ frame.status = "running"
    /\ frame.i < Len(frame.chunks)
    /\ \E resp \in EmbeddingResponses :
          LET chunk == frame.chunks[frame.i + 1]
              r     == GetEmbedding(PyStr(chunk), resp)
              kept  == r.status = "returned" /\ EmbeddingSucceeded(r.emb)
          IN  frame' = [frame EXCEPT
                  !.status = AfterAttempt(r),
                  !.i = @ + 1,
                  !.attempts = Append(@, chunk),
                  !.embeddings = IF kept THEN Append(@, r.emb.vec) ELSE @,
                  !.valid = IF kept THEN Append(@, chunk) ELSE @,
                  !.log = Append(@, r.emb),
                  !.requests = @ + r.requests]
    /\ UNCHANGED <<index, valid_chunks, threads>>

\* After the loop: raise, or build the index and return it with valid_chunks.
BuildFinish ==
    /\ frame.fn = "build_index"
    /\ frame.status = "running"
    /\ frame.i = Len(frame.chunks)
    /\ IF NoEmbeddings(frame.embeddings)
       THEN /\ frame' = [frame EXCEPT !.status = "raised"]
            /\ UNCHANGED <<index, valid_chunks, threads>>
       ELSE /\ frame' = [frame EXCEPT !.status = "returned"]
            /\ index' = IndexOf(frame.embeddings)
            /\ valid_chunks' = frame.valid
            /\ UNCHANGED threads

\* The caller passes the index and the chunk list build_index returned, with a
\* query, to retrieve_chunks.
CallRetrieveChunks ==
    /\ frame.fn = "build_index"
    /\ frame.status = "returned"
    /\ \E query \in Queries, top_k \in -1..MaxTopK, resp \in EmbeddingResponses :
          LET e    == GetEmbedding(PyStr(query), resp)
              base == [fn |-> "retrieve_chunks", query |-> query, top_k |-> top_k,
                       resp |-> resp, query_embedding |-> e.emb,
                       requests |-> e.requests, searches |-> 0, labels |-> <<>>,
                       status |-> "returned", retrieved |-> <<>>]
          IN  IF e.status = "raised"
              THEN frame' = [base EXCEPT !.status = "raised"]
              ELSE IF QueryEmbeddingFailed(e.emb)
                   THEN frame' = base
                   ELSE \E out \in IndexSearch(index, NormalizeL2(e.emb.vec), top_k) :
                           frame' = [base EXCEPT
                               !.searches = 1,
                               !.labels = out.labels,
                               !.status = out.status,
                               !.retrieved = IF out.status = "returned"
                                             THEN Retrieved(valid_chunks, out.labels)
                                             ELSE <<>>]
    /\ UNCHANGED <<index, valid_chunks, threads>>

\* The caller passes the query and the chunks just retrieved to generate_answer.
CallGenerateAnswer ==
    /\ frame.fn = "retrieve_chunks"
    /\ frame.status = "returned"
    /\ \E resp \in ChatResponses :
          frame' = GenerateAnswer(frame.query, frame.retrieved, resp)
    /\ UNCHANGED <<index, valid_chunks, threads>>

Next ==
    \/ CallTokenizeText
    \/ CallGetEmbedding
    \/ BuildStart
    \/ BuildStep
    \/ BuildFinish
    \/ CallRetrieveChunks
    \/ CallGenerateAnswer

Spec == Init /\ [][Next]_vars

(***************************************************************************)
(* Concurrent queries: after build_index has returned, several threads     *)
(* call retrieve_chunks and then generate_answer on the same index and     *)
(* chunk list.  A thread is between two of its accesses to the shared      *)
(* objects or to a provider.                                               *)
(***************************************************************************)
\* Mutant: the list comprehension is replaced by a loop that reverses the
\* shared list in place.
ChunksAfterRetrieveReversed(chunks, labels) ==
    [j \in 1..Len(chunks) |-> chunks[Len(chunks) + 1 - j]]

\* The caller's chunk list after the list comprehension of retrieve_chunks,
\* which reads it and assigns to nothing but its own result.
ChunksAfterRetrieve(chunks, labels) == chunks

\* The frame of a build_index that embedded every chunk and returned.
BuiltFrame(chunks, embeddings) ==
    [fn |-> "build_index", status |-> "returned", chunks |-> chunks,
     i |-> Len(chunks), embeddings |-> embeddings, valid |-> chunks,
     log |-> [j \in 1..Len(chunks) |-> SomeEmb(embeddings[j])],
     attempts |-> chunks, requests |-> Len(chunks)]

\* The states in which build_index has just returned an index of 1..MaxBuilt chunks.
InitConcurrent ==
    \E n \in 1..MaxBuilt :
        \E embeddings \in [1..n -> Vecs] :
            LET chunks == [j \in 1..n |-> IF j % 2 = 1 THEN <<"a">> ELSE <<"b">>] IN
            /\ frame = BuiltFrame(chunks, embeddings)
            /\ index = IndexOf(embeddings)
            /\ valid_chunks = chunks
            /\ threads = [t \in Threads |-> NotStarted]

\* Thread t enters retrieve_chunks and embeds its query.
ThreadEmbed(t) ==
    /\ threads[t].pc = "idle"
    /\ \E query \in Queries, top_k \in ConcTopKs, resp \in EmbeddingResponses :
          LET e == GetEmbedding(PyStr(query), resp)
              entered == [threads[t] EXCEPT !.query = query, !.top_k = top_k,
                                            !.query_embedding = e.emb]
          IN  threads' = [threads EXCEPT ![t] =
                  IF e.status = "raised" THEN [entered EXCEPT !.pc = "raised"]
                  ELSE IF QueryEmbeddingFailed(e.emb)
                       THEN [entered EXCEPT !.pc = "returned"]
                       ELSE [entered EXCEPT !.pc = "embedded"]]
    /\ UNCHANGED <<index, valid_chunks, frame>>

\* Thread t normalizes its query vector and searches the shared index.
ThreadSearch(t) ==
    /\ threads[t].pc = "embedded"
    /\ \E out \in IndexSearch(index, NormalizeL2(threads[t].query_embedding.vec),
                              threads[t].top_k) :
          threads' = [threads EXCEPT ![t] =
              [@ EXCEPT !.pc = IF out.status = "returned" THEN "searched" ELSE "raised",
                        !.labels = out.labels]]
    /\ UNCHANGED <<index, valid_chunks, frame>>

\* Thread t reads the shared chunk list at the labels it was given and returns.
ThreadCollect(t) ==
    /\ threads[t].pc = "searched"
    /\ threads' = [threads EXCEPT ![t] =
          [@ EXCEPT !.pc = "returned",
                    !.retrieved = Retrieved(valid_chunks, threads[t].labels)]]
    /\ valid_chunks' = ChunksAfterRetrieve(valid_chunks, threads[t].labels)
    /\ UNCHANGED <<index, frame>>

\* Thread t passes its query and its retrieved chunks to generate_answer.
ThreadGenerate(t) ==
    /\ threads[t].pc = "returned"
    /\ \E resp \in ChatResponses :
          LET g == GenerateAnswer(threads[t].query, threads[t].retrieved, resp) IN
          threads' = [threads EXCEPT ![t] =
              [@ EXCEPT !.pc = IF g.status = "returned" THEN "answered" ELSE "raised",
                        !.answer = g.answer]]
    /\ UNCHANGED <<index, valid_chunks, frame>>

NextConcurrent ==
    \E t \in Threads :
        \/ ThreadEmbed(t)
        \/ ThreadSearch(t)
        \/ ThreadCollect(t)
        \/ ThreadGenerate(t)

SpecConcurrent == InitConcurrent /\ [][NextConcurrent]_vars

(***************************************************************************)
(* Properties.                                                             *)
(***************************************************************************)
BuildEnded == frame.fn = "build_index" /\ frame.status # "running"

\* The elements of seq at the positions where the embedding succeeded, in order.
RECURSIVE Kept(_, _)
Kept(seq, log) ==
    IF seq = <<>> \/ log = <<>> THEN <<>>
    ELSE (IF log[1].none THEN <<>> ELSE <<seq[1]>>) \o Kept(Tail(seq), Tail(log))

\* C1: when at least one embedding succeeds, build_index returns; the index
\* holds as many vectors as there are returned chunks; the returned chunks are
\* the input chunks whose embedding succeeded, in source order; and the i-th
\* stored vector is the embedding of the i-th returned chunk, divided by its norm.
C1_BuildAlignment ==
    (BuildEnded /\ \E i \in 1..Len(frame.log) : ~frame.log[i].none) =>
        /\ frame.status = "returned"
        /\ Len(frame.log) = Len(frame.chunks)
        /\ Len(index) = Len(valid_chunks)
        /\ valid_chunks = Kept(frame.chunks, frame.log)
        /\ \A j \in 1..Len(index) :
              LET v == Kept([i \in 1..Len(frame.log) |-> frame.log[i].vec], frame.log)[j]
              IN  index[j].v = v /\ index[j].n2 = Dot(v, v)

\* A build that dropped its first chunk and kept two later ones.
C1_Witness ==
    /\ frame.fn = "build_index"
    /\ frame.status = "returned"
    /\ frame.log[1].none
    /\ Len(valid_chunks) = 2
    /\ Len(frame.chunks) = 3
    /\ valid_chunks[1] # valid_chunks[2]

\* C3: when every embedding attempt fails (the empty chunk sequence included),
\* build_index raises and hands no index to the caller; an index it returns
\* holds at least one vector.
C3_NoEmptyIndex ==
    /\ (BuildEnded /\ \A i \in 1..Len(frame.log) : frame.log[i].none) =>
          /\ frame.status = "raised"
          /\ Len(frame.log) = Len(frame.chunks)
          /\ index = <<>>
          /\ valid_chunks = <<>>
    /\ (frame.fn = "build_index" /\ frame.status = "returned") => Len(index) >= 1

\* A build of two chunks that asked the provider and raised.
C3_Witness ==
    /\ frame.fn = "build_index"
    /\ frame.status = "raised"
    /\ Len(frame.chunks) = 2
    /\ frame.requests >= 1

RECURSIVE Flatten(_)
Flatten(windows) ==
    IF windows = <<>> THEN <<>> ELSE windows[1] \o Flatten(Tail(windows))

RECURSIVE SumLen(_)
SumLen(windows) ==
    IF windows = <<>> THEN 0 ELSE Len(windows[1]) + SumLen(Tail(windows))

NonEmptyStr(x) == IsStr(x) /\ x.s # <<>>

\* C6: for a non-empty text, get_embedding returns without raising after exactly
\* one request to the provider: the provider's vector when the request succeeds,
\* None when the request fails or the response is malformed.
C6_ProviderErrorsCaught ==
    (frame.fn = "get_embedding" /\ NonEmptyStr(frame.arg)) =>
        /\ frame.status = "returned"
        /\ frame.requests = 1
        /\ frame.resp.kind = "ok" => frame.emb = SomeEmb(frame.resp.embedding)
        /\ frame.resp.kind # "ok" => frame.emb = NoneEmb

\* get_embedding on a non-empty text whose response was malformed.
C6_Witness ==
    /\ frame.fn = "get_embedding"
    /\ NonEmptyStr(frame.arg)
    /\ frame.resp.kind = "malformed"
    /\ frame.emb.none

\* The number of non-empty chunks among the first n.
RECURSIVE NonEmptyAmong(_, _)
NonEmptyAmong(chunks, n) ==
    IF n = 0 THEN 0
    ELSE (IF chunks[n] # <<>> THEN 1 ELSE 0) + NonEmptyAmong(chunks, n - 1)

\* C7: for the empty string or a value that is no string, get_embedding returns
\* None and sends no request to the provider; build_index and retrieve_chunks
\* send a request only for their non-empty texts.
C7_InvalidInputNoRequest ==
    /\ (frame.fn = "get_embedding" /\ ~NonEmptyStr(frame.arg)) =>
          /\ frame.status = "returned"
          /\ frame.emb = NoneEmb
          /\ frame.requests = 0
    /\ frame.fn = "build_index" =>
          frame.requests = NonEmptyAmong(frame.chunks, frame.i)
    /\ (frame.fn = "retrieve_chunks" /\ frame.query = <<>>) =>
          frame.requests = 0 /\ frame.query_embedding = NoneEmb

\* get_embedding on a non-zero integer, which the provider would have answered.
C7_Witness ==
    /\ frame.fn = "get_embedding"
    /\ frame.arg = PyInt(7)
    /\ frame.resp.kind = "ok"
    /\ frame.emb.none

QueryEmbedded == frame.query # <<>> /\ frame.resp.kind = "ok"

\* C8: when the embedding of the query fails, retrieve_chunks returns the empty
\* sequence without raising and without searching the index.
C8_NoSearchOnFailure ==
    (frame.fn = "retrieve_chunks" /\ ~QueryEmbedded) =>
        /\ frame.status = "returned"
        /\ frame.retrieved = <<>>
        /\ frame.searches = 0

\* A retrieval with top_k >= 1 on a built index whose query request failed.
C8_Witness ==
    /\ frame.fn = "retrieve_chunks"
    /\ frame.query # <<>>
    /\ frame.resp.kind = "error"
    /\ frame.top_k >= 1
    /\ Len(index) >= 2
    /\ frame.retrieved = <<>>

\* C10: generate_answer returns without raising, for every query and context
\* (the empty one included): the provider's text when the request succeeds, the
\* fixed apology when it fails in any way.
C10_AnswerOrApology ==
    frame.fn = "generate_answer" =>
        /\ frame.status = "returned"
        /\ frame.chat.kind = "ok" => frame.answer = frame.chat.text
        /\ frame.chat.kind # "ok" => frame.answer = Apology

\* generate_answer on an empty context whose response was malformed.
C10_Witness ==
    /\ frame.fn = "generate_answer"
    /\ frame.context_chunks = <<>>
    /\ frame.chat.kind = "malformed"
    /\ frame.answer = Apology

Searched ==
    /\ frame.fn = "retrieve_chunks"
    /\ QueryEmbedded

\* The cosine of the query embedding q with the raw vector a is greater than with b.
CosCloser(q, a, b) ==
    SignedSq(Dot(q, a)) * Dot(b, b) > SignedSq(Dot(q, b)) * Dot(a, a)

CosEqual(q, a, b) == ~CosCloser(q, a, b) /\ ~CosCloser(q, b, a)

\* p lists m distinct positions of the index, best first, none worse than a
\* position it leaves out.
RankedBest(p, m) ==
    LET q == frame.query_embedding.vec IN
    /\ \A i \in 1..m : p[i] \in 1..Len(index)
    /\ \A i, j \in 1..m : i # j => p[i] # p[j]
    /\ \A i, j \in 1..m : i < j => ~CosCloser(q, index[p[j]].v, index[p[i]].v)
    /\ \A x \in 1..Len(index) :
          (\A i \in 1..m : p[i] # x) =>
              \A i \in 1..m : ~CosCloser(q, index[x].v, index[p[i]].v)

\* Equally similar positions appear by insertion position, and the earlier one
\* is the one kept at the cut.
TiesByInsertion(p, m) ==
    LET q == frame.query_embedding.vec IN
    /\ \A i, j \in 1..m :
          (i < j /\ CosEqual(q, index[p[i]].v, index[p[j]].v)) => p[i] < p[j]
    /\ \A x \in 1..Len(index) :
          (\A i \in 1..m : p[i] # x) =>
              \A i \in 1..m : CosEqual(q, index[x].v, index[p[i]].v) => p[i] < x

\* The positions the search reported, 1-based.
Positions == [i \in 1..Len(frame.labels) |-> frame.labels[i] + 1]

\* C2 (as claimed): with top_k greater than the index size and an embedded
\* query, retrieve_chunks returns every stored chunk exactly once, in ranked
\* order, and nothing else.
C2_AllChunksOnce ==
    (Searched /\ frame.top_k > Len(index)) =>
        /\ frame.status = "returned"
        /\ Len(frame.retrieved) = Len(index)
        /\ \E p \in [1..Len(index) -> 1..Len(index)] :
              /\ RankedBest(p, Len(index))
              /\ frame.retrieved = [i \in 1..Len(index) |-> valid_chunks[p[i]]]

\* C5 (as claimed): with top_k <= 0, retrieve_chunks returns the empty sequence
\* and does not raise, whatever the index and the query.
C5_NonPositiveTopKEmpty ==
    (frame.fn = "retrieve_chunks" /\ frame.top_k <= 0) =>
        /\ frame.status = "returned"
        /\ frame.retrieved = <<>>

\* C9 (as claimed): with an embedded query and 1 <= top_k <= index size,
\* retrieve_chunks returns exactly top_k chunks, the most similar ones by
\* descending cosine similarity, equally similar chunks by insertion position.
C9_RankedStableTies ==
    (Searched /\ frame.top_k >= 1 /\ frame.top_k <= Len(index)) =>
        /\ frame.status = "returned"
        /\ Len(frame.retrieved) = frame.top_k
        /\ Len(frame.labels) = frame.top_k
        /\ RankedBest(Positions, frame.top_k)
        /\ TiesByInsertion(Positions, frame.top_k)
        /\ \A i \in 1..frame.top_k : frame.retrieved[i] = valid_chunks[Positions[i]]

\* C9 (amended): with an embedded query and 1 <= top_k <= index size,
\* retrieve_chunks returns exactly top_k chunks of distinct index positions, by
\* descending cosine similarity, none less similar than a chunk left out; the
\* order among equally similar chunks is not fixed.  A returned result is never
\* longer than top_k.
C9_RankedTopK ==
    /\ (Searched /\ frame.top_k >= 1 /\ frame.top_k <= Len(index)) =>
          /\ frame.status = "returned"
          /\ Len(frame.retrieved) = frame.top_k
          /\ Len(frame.labels) = frame.top_k
          /\ RankedBest(Positions, frame.top_k)
          /\ \A i \in 1..frame.top_k : frame.retrieved[i] = valid_chunks[Positions[i]]
    /\ (frame.fn = "retrieve_chunks" /\ frame.status = "returned" /\ frame.top_k >= 0) =>
          Len(frame.retrieved) <= frame.top_k

\* A retrieval of the two best of three chunks, the second stored chunk being
\* strictly the most similar and the third strictly the least.
C9_Witness ==
    /\ Searched
    /\ frame.top_k = 2
    /\ Len(index) = 3
    /\ frame.labels = <<1, 0>>
    /\ CosCloser(frame.query_embedding.vec, index[2].v, index[1].v)
    /\ CosCloser(frame.query_embedding.vec, index[1].v, index[3].v)

\* C11 (as claimed): tokenize_text is total: for every text and every integer
\* max_tokens, zero and negative values included, it returns a chunk sequence
\* without raising, and the windows it decodes lose no token of the input.
C11_TotalNoTokenLost ==
    frame.fn = "tokenize_text" =>
        /\ frame.status = "returned"
        /\ Flatten(frame.windows) = frame.tokens
        /\ Len(frame.chunks) = Len(frame.windows)

\* C13: build_index passes every input chunk to get_embedding exactly once, one
\* chunk per iteration and in source order, whatever the outcome of the earlier
\* attempts; it ends only after the last chunk, and raises only when all chunks
\* were attempted and none succeeded.
C13_AllChunksAttemptedInOrder ==
    /\ [](frame.fn = "build_index" =>
            /\ frame.i <= Len(frame.chunks)
            /\ frame.attempts = SubSeq(frame.chunks, 1, frame.i)
            /\ Len(frame.log) = frame.i
            /\ frame.status # "running" => frame.attempts = frame.chunks
            /\ frame.status = "raised" =>
                  \A j \in 1..Len(frame.chunks) : frame.log[j].none)
    /\ [][(frame.fn = "build_index" /\ frame.status = "running") =>
            /\ frame'.fn = "build_index"
            /\ frame'.chunks = frame.chunks
            /\ \/ frame'.status = "running" /\ frame'.i = frame.i + 1
               \/ frame'.status # "running" /\ frame'.i = frame.i]_vars

\* A build of three chunks whose first two attempts failed and whose third
\* succeeded, after which it returned.
C13_Witness ==
    /\ frame.fn = "build_index"
    /\ frame.status = "returned"
    /\ Len(frame.chunks) = 3
    /\ frame.log[1].none
    /\ frame.log[2].none
    /\ ~frame.log[3].none
    /\ frame.requests = 3

\* What retrieve_chunks can return for thread t's query embedding and top_k
\* when it runs alone on the index and the chunk list as build_index returned them.
ResultsAlone(t) ==
    IF threads[t].query_embedding.none THEN {<<>>}
    ELSE {Retrieved(frame.valid, out.labels) :
            out \in {o \in IndexSearch(IndexOf(frame.embeddings),
                                       NormalizeL2(threads[t].query_embedding.vec),
                                       threads[t].top_k) : o.status = "returned"}}

\* C12: once build_index has returned, retrieve_chunks and generate_answer leave
\* the index and its chunk list as build_index returned them, and under every
\* interleaving of the concurrent queries each query returns a result it could
\* have returned running alone.
C12_QueriesIsolated ==
    /\ index = IndexOf(frame.embeddings)
    /\ valid_chunks = frame.valid
    /\ \A t \in Threads :
          threads[t].pc \in {"returned", "answered"} =>
              threads[t].retrieved \in ResultsAlone(t)

\* Thread 1 has returned two chunks, the second stored chunk first, while
\* thread 2, with another query vector, has searched and not yet read the chunks.
C12_Witness ==
    /\ threads[1].pc = "returned"
    /\ threads[1].retrieved = <<<<"b">>, <<"a">>>>
    /\ threads[2].pc = "searched"
    /\ threads[2].labels = <<0, 1>>
    /\ threads[1].query_embedding # threads[2].query_embedding

====
